---- MODULE Spec2Model ----
(***************************************************************************)
(* A model of the Scalene sampling profiler (scalene/scalene.py): the      *)
(* launcher Scalene.main, the three signal handlers, the memoised          *)
(* location filter should_trace, stop()/disable_signals and the report     *)
(* output_profiles.                                                        *)
(*                                                                         *)
(* Strings are sequences of one-character strings, so that indexing        *)
(* (filename[0]) and the substring test (x in filename) are computed.      *)
(* Time is counted in ticks of the process clock read by gettime(); one    *)
(* tick is half of mean_signal_interval.  Weighted sample counts are exact *)
(* rationals kept as integer numerators over the denominator Den.          *)
(***************************************************************************)
EXTENDS Integers, Sequences, FiniteSets, TLC

VARIABLES
    pc,                          \* position of Scalene.main / the interpreter
    clock,                       \* the value gettime() returns now
    launch,                      \* [prog, cwd]: args.prog and the cwd at launch
    cwd,                         \* os.getcwd()
    disp,                        \* signal number -> installed disposition
    itimer,                      \* [armed, expiry, interval] of ITIMER_VIRTUAL
    cpu_pending,                 \* SIGVTALRM tripped, python handler not yet run
    atexit_registered,           \* atexit.register(Scalene.exit_handler) done
    program_path,                \* Scalene.program_path
    last_signal_time,            \* Scalene.last_signal_time
    last_signal_interval,        \* Scalene.last_signal_interval
    elapsed_time,                \* Scalene.elapsed_time
    cpu_samples_python,          \* Scalene.cpu_samples_python
    cpu_samples_c,               \* Scalene.cpu_samples_c (numerators over Den)
    memory_malloc_samples,       \* Scalene.memory_malloc_samples
    memory_free_samples,         \* Scalene.memory_free_samples
    total_cpu_samples,           \* Scalene.total_cpu_samples (numerator over Den)
    total_memory_malloc_samples, \* Scalene.total_memory_malloc_samples
    total_memory_free_samples,   \* Scalene.total_memory_free_samples
    cache,                       \* the lru_cache of should_trace, LRU entry first
    report,                      \* what output_profiles has written
    output,                      \* what main printed: report, notice, exception
    target_outcome,              \* how exec(code) ended
    events,                      \* number of signals raised so far
    calls,                       \* number of direct should_trace calls so far
    fillers,                     \* number of filler filenames queried so far
    stop_calls,                  \* number of completed stop() calls
    last_interrupt,              \* the last signal raised and what its handler did
    last_call,                   \* the last should_trace call and its result
    first_result,                \* filename -> the first boolean returned for it
    cpu_attributed,              \* filename -> CPU interrupts attributed to it
    cpu_handled,                 \* number of CPU handler invocations so far
    last_frame,                  \* the stack the last CPU interrupt arrived on
    hstack                       \* handlers in execution, innermost first

tables == <<cpu_samples_python, cpu_samples_c, memory_malloc_samples,
            memory_free_samples>>
counters == <<total_cpu_samples, total_memory_malloc_samples,
              total_memory_free_samples>>
sampling == <<last_signal_time, last_signal_interval>>
filter == <<cache, last_call, first_result>>
launcher == <<pc, launch, cwd, atexit_registered, program_path, output,
              target_outcome>>
observed == <<cpu_attributed, cpu_handled, last_frame, hstack>>
vars == <<pc, clock, launch, cwd, disp, itimer, cpu_pending, atexit_registered,
          program_path, last_signal_time, last_signal_interval, elapsed_time,
          cpu_samples_python, cpu_samples_c, memory_malloc_samples,
          memory_free_samples, total_cpu_samples, total_memory_malloc_samples,
          total_memory_free_samples, cache, report, output, target_outcome,
          events, calls, fillers, stop_calls, last_interrupt, last_call,
          first_result, cpu_attributed, cpu_handled, last_frame, hstack>>

----------------------------------------------------------------------------
(* Bounds of the model. *)

MaxClock == 4        \* gettime() readings are 0..MaxClock
MaxEvents == 2       \* signals raised in one run
MaxCalls == 2        \* direct should_trace calls in the filter specifications
NumLines == 2        \* lines of each source file

(* Program constants. *)

mean_signal_interval == 2   \* 0.01 s, in ticks of 0.005 s
CacheSize == 128            \* @lru_cache(128)
malloc_sampling_rate == 256 \* 256 * 1024 * 1024 bytes, in MiB
ITIMER_VIRTUAL == 1         \* signal.ITIMER_VIRTUAL
SIGHUP == 1                 \* the signal whose number is 1
SIGVTALRM == 26             \* signal.SIGVTALRM
SIGPROF == 27               \* signal.SIGPROF
SIGXCPU == 24               \* signal.SIGXCPU

\* last_signal_interval is one of mean/2 .. 3*mean/2 = 1..3 ticks; every
\* quotient x / last_signal_interval is a multiple of 1/Den
Den == 3 * mean_signal_interval

cpu_timer_signal == ITIMER_VIRTUAL
cpu_signal == SIGVTALRM
malloc_signal == SIGPROF
free_signal == SIGXCPU
Signals == {SIGHUP, SIGVTALRM, SIGPROF, SIGXCPU}

----------------------------------------------------------------------------
(* Strings and paths. *)

\* s in t, for python strings
IsSubstring(s, t) ==
    \E i \in 0..(Len(t) - Len(s)) : SubSeq(t, i + 1, i + Len(s)) = s

StartsWith(t, s) == Len(t) >= Len(s) /\ SubSeq(t, 1, Len(s)) = s

RECURSIVE SplitAcc(_, _, _)
SplitAcc(path, cur, acc) ==
    IF path = <<>> THEN Append(acc, cur)
    ELSE IF Head(path) = "/" THEN SplitAcc(Tail(path), <<>>, Append(acc, cur))
    ELSE SplitAcc(Tail(path), Append(cur, Head(path)), acc)

\* path.split('/')
Split(path) == SplitAcc(path, <<>>, <<>>)

RECURSIVE Join(_)
\* '/'.join(comps)
Join(comps) ==
    IF comps = <<>> THEN <<>>
    ELSE IF Len(comps) = 1 THEN comps[1]
    ELSE comps[1] \o <<"/">> \o Join(Tail(comps))

Dot == <<".">>
DotDot == <<".", ".">>

RECURSIVE NormComps(_, _, _)
\* the loop of posixpath.normpath over the components
NormComps(comps, new_comps, initial_slashes) ==
    IF comps = <<>> THEN new_comps
    ELSE LET comp == Head(comps)
             rest == Tail(comps)
         IN  IF comp = <<>> \/ comp = Dot
               THEN NormComps(rest, new_comps, initial_slashes)
             ELSE IF \/ comp # DotDot
                     \/ (initial_slashes = 0 /\ new_comps = <<>>)
                     \/ (new_comps # <<>> /\ new_comps[Len(new_comps)] = DotDot)
               THEN NormComps(rest, Append(new_comps, comp), initial_slashes)
             ELSE IF new_comps # <<>>
               THEN NormComps(rest, SubSeq(new_comps, 1, Len(new_comps) - 1),
                              initial_slashes)
             ELSE NormComps(rest, new_comps, initial_slashes)

\* posixpath.normpath
normpath(path) ==
    IF path = <<>> THEN Dot
    ELSE LET initial_slashes ==
                 IF ~StartsWith(path, <<"/">>) THEN 0
                 ELSE IF StartsWith(path, <<"/", "/">>)
                         /\ ~StartsWith(path, <<"/", "/", "/">>) THEN 2
                 ELSE 1
             joined == Join(NormComps(Split(path), <<>>, initial_slashes))
             res == IF initial_slashes = 2 THEN <<"/", "/">> \o joined
                    ELSE IF initial_slashes = 1 THEN <<"/">> \o joined
                    ELSE joined
         IN  IF res = <<>> THEN Dot ELSE res

\* posixpath.join(a, b)
pathjoin(a, b) ==
    IF StartsWith(b, <<"/">>) THEN b
    ELSE IF a = <<>> \/ a[Len(a)] = "/" THEN a \o b
    ELSE a \o <<"/">> \o b

\* os.path.abspath(path) when the working directory is dir
abspath(path, dir) ==
    IF StartsWith(path, <<"/">>) THEN normpath(path)
    ELSE normpath(pathjoin(dir, path))

\* os.path.dirname(path)
dirname(path) ==
    LET idx == {i \in 1..Len(path) : path[i] = "/"}
    IN  IF idx = {} THEN <<>>
        ELSE LET i == CHOOSE k \in idx : \A j \in idx : j <= k
                 head == SubSeq(path, 1, i)
             IN  IF \A j \in 1..i : head[j] = "/" THEN head
                 ELSE LET n == CHOOSE k \in 1..i :
                                   /\ head[k] # "/"
                                   /\ \A j \in (k + 1)..i : head[j] = "/"
                      IN  SubSeq(head, 1, n)

\* os.path.basename(path)
basename(path) ==
    LET idx == {i \in 1..Len(path) : path[i] = "/"}
    IN  IF idx = {} THEN path
        ELSE LET i == CHOOSE k \in idx : \A j \in idx : j <= k
             IN  SubSeq(path, i + 1, Len(path))

----------------------------------------------------------------------------
(* The file names and directories of the runs that are explored. *)

ProfilerName == <<"s", "c", "a", "l", "e", "n", "e", ".", "p", "y">>

RootDir == <<"/", "p">>                      \* directory of the profiled program
HomeDir == <<"/", "h">>                      \* some other launch directory
OtherDir == <<"/", "u">>                     \* a directory outside the root
Dirs == {RootDir, HomeDir, OtherDir}

EmptyName == <<>>                            \* compile(src, '', ...)
SyntheticName == <<"<", "s", ">">>           \* '<string>'
ProfilerFile == <<"/", "s", "/">> \o ProfilerName
MainRel == <<"m">>                           \* the program, as a relative path
MainAbs == <<"/", "p", "/", "m">>            \* the program, as an absolute path
ModName == <<"/", "p", "/", "n">>            \* a module in the root
DeepName == <<"/", "p", "/", "d", "/", "k">> \* a module below the root
DotsName == <<"/", "u", "/", ".", ".", "/", "p", "/", "n">>
LikeProfilerName == <<"/", "p", "/", "x">> \o ProfilerName
SiblingName == <<"/", "p", "q", "/", "a">>   \* sibling dir, root as name prefix
NestedName == <<"/", "u", "/", "p", "/", "a">> \* root's name deeper in the path
LibName == <<"/", "u", "/", "a">>            \* outside the root
MissingName == <<"z">>                       \* a program path that does not exist

ExistingFiles == {MainAbs, ModName, DeepName, LikeProfilerName, SiblingName,
                  NestedName, LibName, ProfilerFile}

\* open(name) succeeds when the working directory is dir
FileExists(name, dir) == name # <<>> /\ abspath(name, dir) \in ExistingFiles

LaunchConfigs == {[prog |-> MainRel, cwd |-> RootDir],
                  [prog |-> MainAbs, cwd |-> HomeDir],
                  [prog |-> MissingName, cwd |-> HomeDir]}

Digits == <<"0", "1", "2", "3", "4", "5", "6", "7", "8", "9">>

\* the k-th of a family of distinct file names outside the root: /u/ddd
Filler(k) == <<"/", "u", "/", Digits[((k \div 100) % 10) + 1],
               Digits[((k \div 10) % 10) + 1], Digits[(k % 10) + 1]>>

NumFillers == CacheSize + 1

FilterInputs == {EmptyName, SyntheticName, ProfilerFile, MainRel, MainAbs,
                 ModName, DeepName, DotsName, LikeProfilerName, SiblingName,
                 NestedName, LibName, RootDir}

RelativeInputs == {MainRel}

----------------------------------------------------------------------------
(* Scalene.should_trace and its lru_cache. *)

\* the body of should_trace, evaluated with working directory dir and
\* Scalene.program_path = ppath; raised: filename[0] on the empty string
should_trace_wrapped(filename, dir, ppath) ==
    IF filename = <<>> THEN [raised |-> TRUE, value |-> FALSE]
    ELSE IF filename[1] = "<" THEN [raised |-> FALSE, value |-> FALSE]
    ELSE IF IsSubstring(ProfilerName, filename)
      THEN [raised |-> FALSE, value |-> FALSE]
    ELSE [raised |-> FALSE,
          value |-> IsSubstring(ppath, abspath(filename, dir))]

\* the cache after a miss on filename that returned value
CacheInsert(c, filename, value) ==
    LET e == [key |-> filename, value |-> value]
    IN  IF Len(c) >= CacheSize THEN Append(Tail(c), e) ELSE Append(c, e)

\* the cache after a hit on its i-th entry
CacheTouch(c, i) ==
    SubSeq(c, 1, i - 1) \o SubSeq(c, i + 1, Len(c)) \o <<c[i]>>

\* should_trace(filename) through @lru_cache(128): the result and the cache
\* it leaves; an exception is not cached
should_trace(filename) ==
    LET hit == {i \in 1..Len(cache) : cache[i].key = filename}
    IN  IF hit # {}
          THEN LET i == CHOOSE k \in hit : TRUE
               IN  [raised |-> FALSE, value |-> cache[i].value,
                    cache |-> CacheTouch(cache, i)]
        ELSE LET r == should_trace_wrapped(filename, cwd, program_path)
             IN  IF r.raised
                   THEN [raised |-> TRUE, value |-> FALSE, cache |-> cache]
                 ELSE [raised |-> FALSE, value |-> r.value,
                       cache |-> CacheInsert(cache, filename, r.value)]

\* bookkeeping of a should_trace call: the cache, the last call, and the
\* first boolean ever returned for the file name
NoteCall(filename, r) ==
    /\ cache' = r.cache
    /\ last_call' = [called |-> TRUE, filename |-> filename, raised |-> r.raised,
                     value |-> r.value, cwd |-> cwd]
    /\ first_result' =
         IF r.raised \/ filename \in DOMAIN first_result THEN first_result
         ELSE first_result @@ (filename :> r.value)

NoCall == [called |-> FALSE, filename |-> <<>>, raised |-> FALSE,
           value |-> FALSE, cwd |-> <<>>]

----------------------------------------------------------------------------
(* Sample tables: defaultdict(lambda: defaultdict(int)), a function from    *)
(* the file names that are keys to functions from the line numbers that    *)
(* are keys to numbers.                                                    *)

EmptyTable == [f \in {} |-> 0]

\* no interrupt attributed yet
EmptyCount == [f \in {} |-> 0]

\* t[f][l] read without inserting
Get(t, f, l) == IF f \in DOMAIN t /\ l \in DOMAIN t[f] THEN t[f][l] ELSE 0

\* t[f][l] += v
Add(t, f, l, v) ==
    LET row == IF f \in DOMAIN t THEN t[f] ELSE EmptyTable
    IN  [g \in DOMAIN t \cup {f} |->
            IF g = f
              THEN [k \in DOMAIN row \cup {l} |->
                       IF k = l THEN Get(t, f, l) + v ELSE row[k]]
            ELSE t[g]]

\* t[f][l] read for every l in ls, a negative value stored back as 0
TouchLinesClamped(t, f, ls) ==
    LET row == IF f \in DOMAIN t THEN t[f] ELSE EmptyTable
    IN  [g \in DOMAIN t \cup {f} |->
            IF g = f
              THEN [k \in DOMAIN row \cup ls |->
                       IF k \in DOMAIN row /\ row[k] > 0 THEN row[k] ELSE 0]
            ELSE t[g]]

\* t[f][l] read for every l in ls: missing keys are inserted with 0
TouchLines(t, f, ls) ==
    LET row == IF f \in DOMAIN t THEN t[f] ELSE EmptyTable
    IN  [g \in DOMAIN t \cup {f} |->
            IF g = f
              THEN [k \in DOMAIN row \cup ls |->
                       IF k \in DOMAIN row THEN row[k] ELSE 0]
            ELSE t[g]]

RECURSIVE SumSet(_, _)
SumSet(row, ks) ==
    IF ks = {} THEN 0
    ELSE LET k == CHOOSE x \in ks : TRUE IN row[k] + SumSet(row, ks \ {k})

\* sum(t[f].values())
SumRow(t, f) == IF f \in DOMAIN t THEN SumSet(t[f], DOMAIN t[f]) ELSE 0

----------------------------------------------------------------------------
(* Frames: the interrupted call stack, innermost frame first; f_back of a   *)
(* frame is the rest of the stack.  The outermost frame of the main thread *)
(* is always code of the profiler itself.                                  *)

Lines == 1..NumLines

FrameOf(fname, lineno) == [fname |-> fname, lineno |-> lineno]

ProfilerFrames == {<<FrameOf(ProfilerFile, 1)>>}

\* stacks of the profiled program, whose main module is compiled as prog
TargetFrames(prog) ==
    LET base == <<FrameOf(prog, 1), FrameOf(ProfilerFile, 1)>>
    IN  {<<FrameOf(prog, l), FrameOf(ProfilerFile, 1)>> : l \in Lines}
        \cup {<<FrameOf(ModName, 1)>> \o base,
              <<FrameOf(LibName, 1)>> \o base,
              <<FrameOf(EmptyName, NumLines)>> \o base,
              <<FrameOf(EmptyName, 1), FrameOf(EmptyName, 1)>> \o base}

\* the stacks a signal can interrupt at position p of the launcher
FramesAt(p) == IF p = "exec" THEN TargetFrames(launch.prog) ELSE ProfilerFrames

----------------------------------------------------------------------------
(* The interval timer and the signal dispositions. *)

\* random.uniform(mean / 2, mean * 3): the upper end not halved
IntervalsUnhalved == (mean_signal_interval \div 2)..(mean_signal_interval * 3)

\* random.uniform(mean / 2, mean * 3 / 2)
Intervals == (mean_signal_interval \div 2)..((mean_signal_interval * 3) \div 2)

Disarmed == [armed |-> FALSE, expiry |-> 0, interval |-> 0]

\* signal.setitimer(which, seconds, interval) at time now
setitimer(now, seconds, interval) ==
    IF seconds = 0 THEN Disarmed
    ELSE [armed |-> TRUE, expiry |-> now + seconds, interval |-> interval]

\* signal.signal(signum, handler)
signal(d, signum, handler) == [d EXCEPT ![signum] = handler]

Running == pc \in {"start", "exec", "stop", "chdir", "dump", "except", "finish"}

\* the process clock advances
Tick ==
    /\ Running
    /\ clock < MaxClock
    /\ clock' = clock + 1
    /\ UNCHANGED <<launcher, disp, itimer, cpu_pending, sampling, elapsed_time,
                   tables, counters, filter, report, events, calls, fillers,
                   stop_calls, last_interrupt, observed>>

\* ITIMER_VIRTUAL expires: SIGVTALRM is raised and trips the python-level
\* flag when a python handler is installed; the timer reloads its interval
TimerFire ==
    /\ Running
    /\ events < MaxEvents
    /\ itimer.armed
    /\ clock >= itimer.expiry
    /\ events' = events + 1
    /\ cpu_pending' = (cpu_pending \/ disp[cpu_signal] = "cpu_signal_handler")
    /\ itimer' = IF itimer.interval = 0 THEN Disarmed
                 ELSE [itimer EXCEPT !.expiry = itimer.expiry + itimer.interval]
    /\ UNCHANGED <<launcher, clock, disp, sampling, elapsed_time, tables,
                   counters, filter, report, calls, fillers, stop_calls,
                   last_interrupt, observed>>

\* where control goes when a handler raises into the interrupted code: the
\* profiled program catches the exception, or exec(code) ends with it
Propagate(caught) ==
    IF pc = "exec" /\ ~caught
      THEN /\ pc' = "except"
           /\ target_outcome' = "exception"
    ELSE UNCHANGED <<pc, target_outcome>>

\* the filtered-out path returning without a new timestamp
cpu_skip_stale(now, dt, interval) ==
    /\ clock' = now + dt
    /\ last_signal_time' = last_signal_time
    /\ last_signal_interval' = interval
    /\ itimer' = setitimer(now + dt, interval, interval)

\* the filtered-out path of cpu_signal_handler: the timestamp, a fresh
\* interval, the timer
cpu_skip(now, dt, interval) ==
    /\ clock' = now + dt
    /\ last_signal_time' = now + dt
    /\ last_signal_interval' = interval
    /\ itimer' = setitimer(now + dt, interval, interval)

\* the accumulations with the interpreted count assigned, not incremented
cpu_record_assigned(fname, lineno, elapsed_since_last_signal) ==
    LET c_time == elapsed_since_last_signal - last_signal_interval
        per == Den \div last_signal_interval
        row == TouchLines(cpu_samples_python, fname, {lineno})
    IN  /\ cpu_samples_python' =
               [row EXCEPT ![fname] = [@ EXCEPT ![lineno] = 1]]
        /\ cpu_samples_c' = Add(cpu_samples_c, fname, lineno, c_time * per)
        /\ total_cpu_samples' =
               total_cpu_samples + elapsed_since_last_signal * per

\* the accumulations with c_time added to the total
cpu_record_c_total(fname, lineno, elapsed_since_last_signal) ==
    LET c_time == elapsed_since_last_signal - last_signal_interval
        per == Den \div last_signal_interval
    IN  /\ cpu_samples_python' = Add(cpu_samples_python, fname, lineno, 1)
        /\ cpu_samples_c' = Add(cpu_samples_c, fname, lineno, c_time * per)
        /\ total_cpu_samples' = total_cpu_samples + c_time * per

\* the three accumulations of cpu_signal_handler for one attributed sample
cpu_record(fname, lineno, elapsed_since_last_signal) ==
    LET c_time == elapsed_since_last_signal - last_signal_interval
        per == Den \div last_signal_interval
    IN  /\ cpu_samples_python' = Add(cpu_samples_python, fname, lineno, 1)
        /\ cpu_samples_c' = Add(cpu_samples_c, fname, lineno, c_time * per)
        /\ total_cpu_samples' =
               total_cpu_samples + elapsed_since_last_signal * per

\* the end of the attributed path arming a one-shot timer
cpu_rearm_oneshot(now, dt, interval) ==
    /\ last_signal_interval' = interval
    /\ itimer' = setitimer(now, interval, 0)
    /\ clock' = now + dt
    /\ last_signal_time' = now + dt

\* the end of the attributed path: a fresh interval, the timer, the timestamp
cpu_rearm(now, dt, interval) ==
    /\ last_signal_interval' = interval
    /\ itimer' = setitimer(now, interval, interval)
    /\ clock' = now + dt
    /\ last_signal_time' = now + dt

\* one more interrupt attributed to fname
Counted(n, fname) ==
    [g \in DOMAIN n \cup {fname} |->
        IF g = fname THEN (IF g \in DOMAIN n THEN n[g] ELSE 0) + 1 ELSE n[g]]

\* Scalene.cpu_signal_handler(_, frame); dt is the clock's advance between
\* the handler's entry and its last gettime()
cpu_signal_handler(frame, dt, interval, caught) ==
    LET now == clock
        elapsed_since_last_signal == now - last_signal_time
        inner == frame[1].fname
        no_back == Len(inner) = 0 /\ Len(frame) < 2
        fname == IF Len(inner) = 0 /\ ~no_back THEN frame[2].fname ELSE inner
        lineno == frame[1].lineno
        r == should_trace(fname)
    IN  IF no_back
          THEN \* frame.f_back is None: AttributeError
               /\ last_interrupt' = [kind |-> "cpu", outcome |-> "raised"]
               /\ Propagate(caught)
               /\ UNCHANGED <<clock, itimer, sampling, tables, counters, cache,
                              cpu_attributed>>
        ELSE IF r.raised
          THEN /\ cache' = r.cache
               /\ last_interrupt' = [kind |-> "cpu", outcome |-> "raised"]
               /\ Propagate(caught)
               /\ UNCHANGED <<clock, itimer, sampling, tables, counters,
                              cpu_attributed>>
        ELSE IF ~r.value
          THEN /\ cache' = r.cache
               /\ cpu_skip(now, dt, interval)
               /\ last_interrupt' = [kind |-> "cpu", outcome |-> "skipped"]
               /\ UNCHANGED <<pc, target_outcome, tables, counters,
                              cpu_attributed>>
        ELSE /\ cache' = r.cache
             /\ cpu_record(fname, lineno, elapsed_since_last_signal)
             /\ cpu_rearm(now, dt, interval)
             /\ last_interrupt' = [kind |-> "cpu", outcome |-> "attributed"]
             /\ cpu_attributed' = Counted(cpu_attributed, fname)
             /\ UNCHANGED <<pc, target_outcome, memory_malloc_samples,
                            memory_free_samples, total_memory_malloc_samples,
                            total_memory_free_samples>>

\* the interpreter runs the python handler of a tripped SIGVTALRM; again: the
\* timer armed before the handler ran is due and expires once more while the
\* handler runs, before the handler's own setitimer, and trips the flag anew
CpuInterrupt ==
    /\ Running
    /\ cpu_pending
    /\ disp[cpu_signal] = "cpu_signal_handler"
    /\ \E frame \in FramesAt(pc), dt \in 0..1, interval \in Intervals,
          caught \in BOOLEAN, again \in BOOLEAN :
          /\ clock + dt <= MaxClock
          /\ again => (events < MaxEvents /\ itimer.armed
                          /\ clock >= itimer.expiry)
          /\ cpu_signal_handler(frame, dt, interval, caught)
          /\ last_frame' = frame
          /\ cpu_handled' = cpu_handled + 1
          /\ again => last_interrupt'.outcome # "raised"
          /\ cpu_pending' = again
          /\ events' = IF again THEN events + 1 ELSE events
    /\ UNCHANGED <<launch, cwd, atexit_registered, program_path, output, disp,
                   elapsed_time, report, calls, fillers, stop_calls,
                   last_call, first_result, hstack>>

\* Scalene.malloc_signal_handler(_, frame)
malloc_signal_handler(frame, caught) ==
    LET fname == frame[1].fname
        r == should_trace(fname)
    IN  /\ cache' = r.cache
        /\ IF r.raised
             THEN /\ last_interrupt' = [kind |-> "malloc", outcome |-> "raised"]
                  /\ Propagate(caught)
                  /\ UNCHANGED <<memory_malloc_samples,
                                 total_memory_malloc_samples>>
           ELSE IF ~r.value
             THEN /\ last_interrupt' = [kind |-> "malloc", outcome |-> "skipped"]
                  /\ UNCHANGED <<pc, target_outcome, memory_malloc_samples,
                                 total_memory_malloc_samples>>
           ELSE /\ memory_malloc_samples' =
                       Add(memory_malloc_samples, fname, frame[1].lineno, 1)
                /\ total_memory_malloc_samples' = total_memory_malloc_samples + 1
                /\ last_interrupt' = [kind |-> "malloc", outcome |-> "attributed"]
                /\ UNCHANGED <<pc, target_outcome>>

\* Scalene.free_signal_handler(_, frame)
free_signal_handler(frame, caught) ==
    LET fname == frame[1].fname
        r == should_trace(fname)
    IN  /\ cache' = r.cache
        /\ IF r.raised
             THEN /\ last_interrupt' = [kind |-> "free", outcome |-> "raised"]
                  /\ Propagate(caught)
                  /\ UNCHANGED <<memory_free_samples, total_memory_free_samples>>
           ELSE IF ~r.value
             THEN /\ last_interrupt' = [kind |-> "free", outcome |-> "skipped"]
                  /\ UNCHANGED <<pc, target_outcome, memory_free_samples,
                                 total_memory_free_samples>>
           ELSE /\ memory_free_samples' =
                       Add(memory_free_samples, fname, frame[1].lineno, 1)
                /\ total_memory_free_samples' = total_memory_free_samples + 1
                /\ last_interrupt' = [kind |-> "free", outcome |-> "attributed"]
                /\ UNCHANGED <<pc, target_outcome>>

\* the sampling allocator raises SIGPROF
MallocInterrupt ==
    /\ Running
    /\ events < MaxEvents
    /\ events' = events + 1
    /\ IF disp[malloc_signal] = "malloc_signal_handler"
         THEN \E frame \in FramesAt(pc), caught \in BOOLEAN :
                  malloc_signal_handler(frame, caught)
       ELSE /\ last_interrupt' = [kind |-> "malloc", outcome |-> "ignored"]
            /\ UNCHANGED <<pc, target_outcome, memory_malloc_samples,
                           total_memory_malloc_samples, cache>>
    /\ UNCHANGED <<last_call, first_result, launch, cwd, atexit_registered, program_path, output, clock,
                   disp, itimer, cpu_pending, sampling, elapsed_time,
                   cpu_samples_python, cpu_samples_c, memory_free_samples,
                   total_cpu_samples, total_memory_free_samples, report, calls,
                   fillers, stop_calls, observed>>

\* the sampling allocator raises SIGXCPU
FreeInterrupt ==
    /\ Running
    /\ events < MaxEvents
    /\ events' = events + 1
    /\ IF disp[free_signal] = "free_signal_handler"
         THEN \E frame \in FramesAt(pc), caught \in BOOLEAN :
                  free_signal_handler(frame, caught)
       ELSE /\ last_interrupt' = [kind |-> "free", outcome |-> "ignored"]
            /\ UNCHANGED <<pc, target_outcome, memory_free_samples,
                           total_memory_free_samples, cache>>
    /\ UNCHANGED <<last_call, first_result, launch, cwd, atexit_registered, program_path, output, clock,
                   disp, itimer, cpu_pending, sampling, elapsed_time,
                   cpu_samples_python, cpu_samples_c, memory_malloc_samples,
                   total_cpu_samples, total_memory_malloc_samples, report, calls,
                   fillers, stop_calls, observed>>

----------------------------------------------------------------------------
(* Scalene.start, Scalene.stop, Scalene.disable_signals. *)

\* the dispositions after disable_signals; signal.signal raises for a number
\* that is no signal, which the try/except swallows
disable_signals_disp(d) ==
    LET d1 == IF cpu_timer_signal \in DOMAIN d
                THEN signal(d, cpu_timer_signal, "SIG_IGN") ELSE d
        d2 == signal(d1, malloc_signal, "SIG_IGN")
    IN  signal(d2, free_signal, "SIG_IGN")

\* Scalene.disable_signals()
disable_signals ==
    /\ disp' = disable_signals_disp(disp)
    /\ itimer' = setitimer(clock, 0, 0)

\* Scalene.stop()
stop ==
    /\ disable_signals
    /\ elapsed_time' = clock - elapsed_time
    /\ stop_calls' = stop_calls + 1

----------------------------------------------------------------------------
(* Scalene.output_profiles. *)

Alphabet == <<".", "/", "0", "1", "2", "3", "4", "5", "6", "7", "8", "9", "<",
              ">", "a", "c", "d", "e", "h", "k", "l", "m", "n", "p", "q", "s",
              "u", "x", "y", "z">>

Rank(ch) == CHOOSE i \in 1..Len(Alphabet) : Alphabet[i] = ch

RECURSIVE StrLess(_, _)
\* s < t for python strings
StrLess(s, t) ==
    IF t = <<>> THEN FALSE
    ELSE IF s = <<>> THEN TRUE
    ELSE IF Head(s) # Head(t) THEN Rank(Head(s)) < Rank(Head(t))
    ELSE StrLess(Tail(s), Tail(t))

RECURSIVE Sorted(_)
\* sorted(S) for a set S of strings
Sorted(S) ==
    IF S = {} THEN <<>>
    ELSE LET m == CHOOSE x \in S : \A y \in S \ {x} : StrLess(x, y)
         IN  <<m>> \o Sorted(S \ {m})

\* the rational n / d
Frac(n, d) == [num |-> n, den |-> d]
Zero == Frac(0, 1)

did_sample_memory ==
    (total_memory_free_samples + total_memory_malloc_samples) > 1

all_instrumented_files ==
    DOMAIN cpu_samples_python \cup DOMAIN memory_free_samples
        \cup DOMAIN memory_malloc_samples

\* sum(cpu_samples_c[fname].values()) + sum(cpu_samples_python[fname].values()),
\* as a numerator over Den
this_cpu_samples(fname) ==
    SumRow(cpu_samples_c, fname) + Den * SumRow(cpu_samples_python, fname)

\* the quotient without the ZeroDivisionError handler
percent_cpu_time_unguarded(fname) ==
    Frac(100 * this_cpu_samples(fname), total_cpu_samples)

\* 100 * this_cpu_samples / total_cpu_samples, 0 on ZeroDivisionError
percent_cpu_time(fname) ==
    IF total_cpu_samples = 0 THEN Zero
    ELSE Frac(100 * this_cpu_samples(fname), total_cpu_samples)

\* the n_cpu_samples_c of a line: the stored value, negative replaced by 0
n_cpu_samples_c(fname, line_no) ==
    LET n == Get(cpu_samples_c, fname, line_no)
    IN  IF n < 0 THEN 0 ELSE n

\* the values printed for one source line
LineRow(fname, line_no) ==
    LET n_c == n_cpu_samples_c(fname, line_no)
        n_python == Get(cpu_samples_python, fname, line_no)
        n_free_mb == Get(memory_free_samples, fname, line_no)
                         * malloc_sampling_rate
        n_malloc_mb == Get(memory_malloc_samples, fname, line_no)
                           * malloc_sampling_rate
    IN  [n_cpu_percent_c |->
             IF total_cpu_samples # 0 THEN Frac(n_c * 100, total_cpu_samples)
             ELSE Zero,
         n_cpu_percent_python |->
             IF total_cpu_samples # 0
               THEN Frac(n_python * Den * 100, total_cpu_samples)
             ELSE Zero,
         memory_columns |-> did_sample_memory,
         n_growth_mb |-> n_malloc_mb - n_free_mb,
         n_usage_mb |-> n_malloc_mb + n_free_mb]

NoReport == [invoked |-> FALSE, did_sample_memory |-> FALSE, order |-> <<>>,
             files |-> EmptyTable, raised |-> FALSE]

\* the files output_profiles visits, in order, up to the first one that
\* open(fname) cannot read
profiled_files ==
    LET files == Sorted(all_instrumented_files)
        bad == {i \in 1..Len(files) : ~FileExists(files[i], cwd)}
        last == IF bad = {} THEN Len(files)
                ELSE CHOOSE i \in bad : \A j \in bad : i <= j
    IN  [order |-> SubSeq(files, 1, last),
         headed |-> {files[i] : i \in 1..last},
         listed |-> {files[i] : i \in 1..last} \ {files[i] : i \in bad},
         raised |-> bad # {}]

\* what output_profiles prints from the current tables and counters
printed_profile ==
    LET v == profiled_files
    IN  [invoked |-> TRUE,
         did_sample_memory |-> did_sample_memory,
         order |-> v.order,
         files |-> [f \in v.headed |->
                      [this_cpu_samples |-> this_cpu_samples(f),
                       percent_cpu_time |-> percent_cpu_time(f),
                       memory_columns |-> did_sample_memory,
                       rows |-> IF f \in v.listed
                                  THEN [l \in Lines |-> LineRow(f, l)]
                                ELSE EmptyTable]],
         raised |-> v.raised]

\* Scalene.output_profiles(output_file): the files in sorted order, for each
\* its header and one row per line of the source file; open(fname) raising
\* ends the report after that file's header.  Reading a defaultdict entry
\* that is absent stores it with the value 0.
output_profiles ==
    LET headed == profiled_files.headed
        listed == profiled_files.listed
        touch_files(t) ==
            [g \in DOMAIN t \cup headed |->
                IF g \in listed THEN TouchLines(t, g, Lines)[g]
                ELSE IF g \in DOMAIN t THEN t[g] ELSE EmptyTable]
        touch_lines(t) ==
            [g \in DOMAIN t \cup listed |->
                IF g \in listed THEN TouchLines(t, g, Lines)[g] ELSE t[g]]
    IN  /\ report' = printed_profile
        /\ cpu_samples_c' = touch_files(cpu_samples_c)
        /\ cpu_samples_python' = touch_files(cpu_samples_python)
        /\ memory_free_samples' = touch_lines(memory_free_samples)
        /\ memory_malloc_samples' = touch_lines(memory_malloc_samples)

----------------------------------------------------------------------------
(* Scalene.main and the interpreter's exit. *)

\* main, lines 314-322 and 344-345: open the program, remember the working
\* directory, change to the program's directory
Prepare ==
    /\ pc = "open"
    /\ IF FileExists(launch.prog, cwd)
         THEN /\ cwd' = dirname(abspath(launch.prog, cwd))
              /\ pc' = "construct"
              /\ UNCHANGED output
       ELSE /\ output' = Append(output, "notfound")
            /\ pc' = "finish"
            /\ UNCHANGED cwd
    /\ UNCHANGED <<launch, atexit_registered, program_path, target_outcome,
                   clock, disp, itimer, cpu_pending, sampling, elapsed_time,
                   tables, counters, filter, report, events, calls, fillers,
                   stop_calls, last_interrupt, observed>>

\* Scalene.__init__(os.path.join(program_path, os.path.basename(args.prog)))
Construct ==
    /\ pc = "construct"
    /\ atexit_registered' = TRUE
    /\ program_path' = dirname(abspath(pathjoin(cwd, basename(launch.prog)), cwd))
    /\ disp' = signal(signal(signal(disp, cpu_signal, "cpu_signal_handler"),
                             malloc_signal, "malloc_signal_handler"),
                      free_signal, "free_signal_handler")
    /\ itimer' = setitimer(clock, mean_signal_interval, mean_signal_interval)
    /\ last_signal_time' = clock
    /\ pc' = "start"
    /\ UNCHANGED <<launch, cwd, output, target_outcome, clock, cpu_pending,
                   last_signal_interval, elapsed_time, tables, counters, filter,
                   report, events, calls, fillers, stop_calls, last_interrupt, observed>>

\* profiler.start()
Start ==
    /\ pc = "start"
    /\ elapsed_time' = clock
    /\ pc' = "exec"
    /\ UNCHANGED <<launch, cwd, atexit_registered, program_path, output,
                   target_outcome, clock, disp, itimer, cpu_pending, sampling,
                   tables, counters, filter, report, events, calls, fillers,
                   stop_calls, last_interrupt, observed>>

\* the profiled program calls os.chdir
TargetChdir ==
    /\ pc = "exec"
    /\ cwd # OtherDir
    /\ cwd' = OtherDir
    /\ UNCHANGED <<pc, launch, atexit_registered, program_path, output,
                   target_outcome, clock, disp, itimer, cpu_pending, sampling,
                   elapsed_time, tables, counters, filter, report, events, calls,
                   fillers, stop_calls, last_interrupt, observed>>

\* exec(code, the_globals) ends: the program returns, raises an Exception,
\* or asks to exit (SystemExit, which except Exception does not catch)
TargetEnds ==
    /\ pc = "exec"
    /\ \E how \in {"return", "exception", "exit"} :
          /\ target_outcome' = how
          /\ pc' = IF how = "return" THEN "stop"
                   ELSE IF how = "exception" THEN "except" ELSE "finish"
    /\ UNCHANGED <<launch, cwd, atexit_registered, program_path, output, clock,
                   disp, itimer, cpu_pending, sampling, elapsed_time, tables,
                   counters, filter, report, events, calls, fillers, stop_calls,
                   last_interrupt, observed>>

\* profiler.stop()
Stop ==
    /\ pc = "stop"
    /\ stop
    /\ pc' = "chdir"
    /\ UNCHANGED <<launch, cwd, atexit_registered, program_path, output,
                   target_outcome, clock, cpu_pending, sampling, tables, counters,
                   filter, report, events, calls, fillers, last_interrupt, observed>>

\* os.chdir(original_path)
ChdirBack ==
    /\ pc = "chdir"
    /\ cwd' = launch.cwd
    /\ pc' = "dump"
    /\ UNCHANGED <<launch, atexit_registered, program_path, output,
                   target_outcome, clock, disp, itimer, cpu_pending, sampling,
                   elapsed_time, tables, counters, filter, report, events, calls,
                   fillers, stop_calls, last_interrupt, observed>>

\* main, lines 335-338: dump the samples, or say the run was too short
Dump ==
    /\ pc = "dump"
    /\ IF \/ total_cpu_samples > 0
          \/ total_memory_malloc_samples > 0
          \/ total_memory_free_samples > 0
         THEN /\ output_profiles
              /\ output' = Append(output, "report")
              /\ pc' = IF report'.raised THEN "except" ELSE "finish"
       ELSE /\ output' = Append(output, "notice")
            /\ pc' = "finish"
            /\ UNCHANGED <<report, tables>>
    /\ UNCHANGED <<launch, cwd, atexit_registered, program_path, target_outcome,
                   clock, disp, itimer, cpu_pending, sampling, elapsed_time,
                   counters, filter, events, calls, fillers, stop_calls,
                   last_interrupt, observed>>

\* main, lines 339-343: except Exception prints the exception
Except ==
    /\ pc = "except"
    /\ output' = Append(output, "exception")
    /\ pc' = "finish"
    /\ UNCHANGED <<launch, cwd, atexit_registered, program_path, target_outcome,
                   clock, disp, itimer, cpu_pending, sampling, elapsed_time,
                   tables, counters, filter, report, events, calls, fillers,
                   stop_calls, last_interrupt, observed>>

\* the interpreter exits: Scalene.exit_handler runs when it was registered
AtExit ==
    /\ pc = "finish"
    /\ IF atexit_registered THEN disable_signals ELSE UNCHANGED <<disp, itimer>>
    /\ pc' = "exited"
    /\ UNCHANGED <<launch, cwd, atexit_registered, program_path, output,
                   target_outcome, clock, cpu_pending, sampling, elapsed_time,
                   tables, counters, filter, report, events, calls, fillers,
                   stop_calls, last_interrupt, observed>>

----------------------------------------------------------------------------
(* The run of the launcher. *)

Init ==
    /\ pc = "open"
    /\ clock = 0
    /\ launch \in LaunchConfigs
    /\ cwd = launch.cwd
    /\ disp = [s \in Signals |-> "SIG_DFL"]
    /\ itimer = Disarmed
    /\ cpu_pending = FALSE
    /\ atexit_registered = FALSE
    /\ program_path = <<>>
    /\ last_signal_time = 0
    /\ last_signal_interval = mean_signal_interval
    /\ elapsed_time = 0
    /\ cpu_samples_python = EmptyTable
    /\ cpu_samples_c = EmptyTable
    /\ memory_malloc_samples = EmptyTable
    /\ memory_free_samples = EmptyTable
    /\ total_cpu_samples = 0
    /\ total_memory_malloc_samples = 0
    /\ total_memory_free_samples = 0
    /\ cache = <<>>
    /\ report = NoReport
    /\ output = <<>>
    /\ target_outcome = "none"
    /\ events = 0
    /\ calls = 0
    /\ fillers = 0
    /\ stop_calls = 0
    /\ last_interrupt = [kind |-> "none", outcome |-> "none"]
    /\ cpu_attributed = EmptyCount
    /\ cpu_handled = 0
    /\ last_frame = <<>>
    /\ hstack = <<>>
    /\ last_call = NoCall
    /\ first_result = EmptyTable

Next ==
    \/ Prepare
    \/ Construct
    \/ Start
    \/ Tick
    \/ TimerFire
    \/ CpuInterrupt
    \/ MallocInterrupt
    \/ FreeInterrupt
    \/ TargetChdir
    \/ TargetEnds
    \/ Stop
    \/ ChdirBack
    \/ Dump
    \/ Except
    \/ AtExit

Spec == Init /\ [][Next]_vars

----------------------------------------------------------------------------
(* A second explicit call of the public Scalene.stop(). *)

MaxStops == 2

\* Scalene.stop() called again by a client after it has returned once
StopAgain ==
    /\ pc \in {"chdir", "dump", "finish"}
    /\ stop_calls >= 1
    /\ stop_calls < MaxStops
    /\ stop
    /\ UNCHANGED <<launcher, clock, cpu_pending, sampling, tables, counters,
                   filter, report, events, calls, fillers, last_interrupt, observed>>

NextApi == Next \/ StopAgain

SpecApi == Init /\ [][NextApi]_vars

----------------------------------------------------------------------------
(* The location filter on its own: should_trace called for chosen file     *)
(* names while the profiled program runs and changes directory.            *)

\* the state in which exec(code) starts when the program m is launched from
\* its own directory
InitFilter ==
    /\ pc = "exec"
    /\ clock = 0
    /\ launch = [prog |-> MainRel, cwd |-> RootDir]
    /\ cwd = RootDir
    /\ disp = [s \in Signals |->
                 IF s = cpu_signal THEN "cpu_signal_handler"
                 ELSE IF s = malloc_signal THEN "malloc_signal_handler"
                 ELSE IF s = free_signal THEN "free_signal_handler"
                 ELSE "SIG_DFL"]
    /\ itimer = setitimer(0, mean_signal_interval, mean_signal_interval)
    /\ cpu_pending = FALSE
    /\ atexit_registered = TRUE
    /\ program_path = RootDir
    /\ last_signal_time = 0
    /\ last_signal_interval = mean_signal_interval
    /\ elapsed_time = 0
    /\ cpu_samples_python = EmptyTable
    /\ cpu_samples_c = EmptyTable
    /\ memory_malloc_samples = EmptyTable
    /\ memory_free_samples = EmptyTable
    /\ total_cpu_samples = 0
    /\ total_memory_malloc_samples = 0
    /\ total_memory_free_samples = 0
    /\ cache = <<>>
    /\ report = NoReport
    /\ output = <<>>
    /\ target_outcome = "none"
    /\ events = 0
    /\ calls = 0
    /\ fillers = 0
    /\ stop_calls = 0
    /\ last_interrupt = [kind |-> "none", outcome |-> "none"]
    /\ cpu_attributed = EmptyCount
    /\ cpu_handled = 0
    /\ last_frame = <<>>
    /\ hstack = <<>>
    /\ last_call = NoCall
    /\ first_result = EmptyTable

\* one call Scalene.should_trace(filename)
ShouldTraceCall(filename) ==
    /\ pc = "exec"
    /\ NoteCall(filename, should_trace(filename))
    /\ UNCHANGED <<launcher, clock, disp, itimer, cpu_pending, sampling,
                   elapsed_time, tables, counters, report, events, stop_calls,
                   last_interrupt, observed>>

CallShouldTrace ==
    /\ calls < MaxCalls
    /\ calls' = calls + 1
    /\ \E filename \in FilterInputs : ShouldTraceCall(filename)
    /\ UNCHANGED fillers

CallRelative ==
    /\ calls < MaxCalls
    /\ calls' = calls + 1
    /\ \E filename \in RelativeInputs : ShouldTraceCall(filename)
    /\ UNCHANGED fillers

\* should_trace called for the next of the distinct file names Filler(k)
CallFiller ==
    /\ fillers < NumFillers
    /\ fillers' = fillers + 1
    /\ ShouldTraceCall(Filler(fillers + 1))
    /\ UNCHANGED calls

NextFilter == CallShouldTrace \/ TargetChdir

SpecFilter == InitFilter /\ [][NextFilter]_vars

NextCache == CallRelative \/ CallFiller \/ TargetChdir

SpecCache == InitFilter /\ [][NextCache]_vars

----------------------------------------------------------------------------
(* The handlers statement by statement.  The interpreter runs a python      *)
(* signal handler between two bytecodes of whatever is executing, a handler *)
(* included, so a handler can be interrupted between any two of its        *)
(* statements by a handler of the same or another signal, which runs to    *)
(* its end before the interrupted one goes on.  hstack holds the handlers  *)
(* in execution, each at the line it executes next.                        *)

MaxDepth == 2        \* handlers in execution at once

\* the stacks a signal finds: the profiled program's, or the frame of the
\* handler in execution, in the profiler's file or in a library it calls
HandlerFrames ==
    {<<FrameOf(ProfilerFile, 1)>>,
     <<FrameOf(LibName, 1), FrameOf(ProfilerFile, 1)>>}

FramesIn(stack) == IF stack = <<>> THEN FramesAt(pc) ELSE HandlerFrames

Activation(kind, at, fname, lineno, elapsed) ==
    [kind |-> kind, at |-> at, fname |-> fname, lineno |-> lineno,
     elapsed_since_last_signal |-> elapsed, c_time |-> 0]

\* the handler in execution moves to line at
Goto(at) == hstack' = <<[Head(hstack) EXCEPT !.at = at]>> \o Tail(hstack)

\* the handler in execution returns
Return == hstack' = Tail(hstack)

\* an exception leaves every handler in execution and reaches the program
Unwind(kind, caught) ==
    /\ hstack' = <<>>
    /\ last_interrupt' = [kind |-> kind, outcome |-> "raised"]
    /\ Propagate(caught)

\* cpu_signal_handler, lines 119-127: the clock, the file name, the filter
EnterCpu ==
    /\ pc = "exec"
    /\ cpu_pending
    /\ disp[cpu_signal] = "cpu_signal_handler"
    /\ Len(hstack) < MaxDepth
    /\ \E frame \in FramesIn(hstack), caught \in BOOLEAN :
          LET now == clock
              elapsed_since_last_signal == now - last_signal_time
              inner == frame[1].fname
              no_back == Len(inner) = 0 /\ Len(frame) < 2
              fname == IF Len(inner) = 0 /\ ~no_back THEN frame[2].fname
                       ELSE inner
              r == should_trace(fname)
          IN  /\ last_frame' = frame
              /\ IF no_back
                   THEN Unwind("cpu", caught) /\ UNCHANGED cache
                 ELSE IF r.raised
                   THEN Unwind("cpu", caught) /\ cache' = r.cache
                 ELSE /\ cache' = r.cache
                      /\ hstack' =
                            <<Activation("cpu",
                                         IF r.value THEN "L150" ELSE "L128",
                                         fname, frame[1].lineno,
                                         elapsed_since_last_signal)>>
                                \o hstack
                      /\ UNCHANGED <<pc, target_outcome, last_interrupt>>
    /\ cpu_pending' = FALSE
    /\ cpu_handled' = cpu_handled + 1
    /\ UNCHANGED <<launch, cwd, atexit_registered, program_path, output, clock,
                   disp, itimer, sampling, elapsed_time, tables, counters,
                   report, events, calls, fillers, stop_calls, last_call,
                   first_result, cpu_attributed>>

\* one statement of cpu_signal_handler, lines 128-131 and 150-157
StepCpu ==
    /\ hstack # <<>>
    /\ Head(hstack).kind = "cpu"
    /\ LET h == Head(hstack)
           per == Den \div last_signal_interval
       IN  CASE h.at = "L128" ->
                  /\ last_signal_time' = clock
                  /\ Goto("L129")
                  /\ UNCHANGED <<last_signal_interval, itimer, tables,
                                 total_cpu_samples, last_interrupt,
                                 cpu_attributed>>
             [] h.at = "L129" ->
                  /\ \E interval \in Intervals :
                         last_signal_interval' = interval
                  /\ Goto("L130")
                  /\ UNCHANGED <<last_signal_time, itimer, tables,
                                 total_cpu_samples, last_interrupt,
                                 cpu_attributed>>
             [] h.at = "L130" ->
                  /\ itimer' = setitimer(clock, last_signal_interval,
                                         last_signal_interval)
                  /\ Return
                  /\ last_interrupt' = [kind |-> "cpu", outcome |-> "skipped"]
                  /\ UNCHANGED <<sampling, tables, total_cpu_samples,
                                 cpu_attributed>>
             [] h.at = "L150" ->
                  /\ hstack' =
                        <<[h EXCEPT !.at = "L151",
                                    !.c_time = h.elapsed_since_last_signal
                                                 - last_signal_interval]>>
                            \o Tail(hstack)
                  /\ UNCHANGED <<sampling, itimer, tables, total_cpu_samples,
                                 last_interrupt, cpu_attributed>>
             [] h.at = "L151" ->
                  /\ cpu_samples_python' =
                         Add(cpu_samples_python, h.fname, h.lineno, 1)
                  /\ cpu_attributed' = Counted(cpu_attributed, h.fname)
                  /\ Goto("L152")
                  /\ UNCHANGED <<sampling, itimer, cpu_samples_c,
                                 memory_malloc_samples, memory_free_samples,
                                 total_cpu_samples, last_interrupt>>
             [] h.at = "L152" ->
                  /\ cpu_samples_c' =
                         Add(cpu_samples_c, h.fname, h.lineno, h.c_time * per)
                  /\ Goto("L153")
                  /\ UNCHANGED <<sampling, itimer, cpu_samples_python,
                                 memory_malloc_samples, memory_free_samples,
                                 total_cpu_samples, last_interrupt,
                                 cpu_attributed>>
             [] h.at = "L153" ->
                  /\ total_cpu_samples' =
                         total_cpu_samples + h.elapsed_since_last_signal * per
                  /\ Goto("L154")
                  /\ UNCHANGED <<sampling, itimer, tables, last_interrupt,
                                 cpu_attributed>>
             [] h.at = "L154" ->
                  /\ \E interval \in Intervals :
                         last_signal_interval' = interval
                  /\ Goto("L155")
                  /\ UNCHANGED <<last_signal_time, itimer, tables,
                                 total_cpu_samples, last_interrupt,
                                 cpu_attributed>>
             [] h.at = "L155" ->
                  /\ itimer' = setitimer(clock, last_signal_interval,
                                         last_signal_interval)
                  /\ Goto("L156")
                  /\ UNCHANGED <<sampling, tables, total_cpu_samples,
                                 last_interrupt, cpu_attributed>>
             [] h.at = "L156" ->
                  /\ last_signal_time' = clock
                  /\ Return
                  /\ last_interrupt' =
                         [kind |-> "cpu", outcome |-> "attributed"]
                  /\ UNCHANGED <<last_signal_interval, itimer, tables,
                                 total_cpu_samples, cpu_attributed>>
    /\ UNCHANGED <<launcher, clock, disp, cpu_pending, elapsed_time,
                   total_memory_malloc_samples, total_memory_free_samples,
                   filter, report, events, calls, fillers, stop_calls,
                   cpu_handled, last_frame>>

\* a memory handler up to its filter: the sampling allocator raises the
\* signal, the handler takes the file name of the interrupted frame and
\* returns at once when the filter rejects it
EnterMemory(kind, first) ==
    /\ pc = "exec"
    /\ events < MaxEvents
    /\ events' = events + 1
    /\ Len(hstack) < MaxDepth
    /\ \E frame \in FramesIn(hstack), caught \in BOOLEAN :
          LET fname == frame[1].fname
              r == should_trace(fname)
          IN  /\ cache' = r.cache
              /\ IF r.raised
                   THEN Unwind(kind, caught)
                 ELSE IF ~r.value
                   THEN /\ last_interrupt' =
                               [kind |-> kind, outcome |-> "skipped"]
                        /\ UNCHANGED <<pc, target_outcome, hstack>>
                 ELSE /\ hstack' =
                            <<Activation(kind, first, fname,
                                         frame[1].lineno, 0)>> \o hstack
                      /\ UNCHANGED <<pc, target_outcome, last_interrupt>>
    /\ UNCHANGED <<launch, cwd, atexit_registered, program_path, output, clock,
                   disp, itimer, cpu_pending, sampling, elapsed_time, tables,
                   counters, report, calls, fillers, stop_calls, last_call,
                   first_result, cpu_attributed, cpu_handled, last_frame>>

\* malloc_signal_handler, lines 162-165
EnterMalloc ==
    /\ disp[malloc_signal] = "malloc_signal_handler"
    /\ EnterMemory("malloc", "L166")

\* free_signal_handler, lines 173-176
EnterFree ==
    /\ disp[free_signal] = "free_signal_handler"
    /\ EnterMemory("free", "L177")

\* line 167 adding to the counter of the other handler
malloc_total_swapped ==
    /\ total_memory_free_samples' = total_memory_free_samples + 1
    /\ UNCHANGED total_memory_malloc_samples

\* Scalene.total_memory_malloc_samples += 1
malloc_total ==
    /\ total_memory_malloc_samples' = total_memory_malloc_samples + 1
    /\ UNCHANGED total_memory_free_samples

\* Scalene.total_memory_free_samples += 1
free_total ==
    /\ total_memory_free_samples' = total_memory_free_samples + 1
    /\ UNCHANGED total_memory_malloc_samples

\* one statement of malloc_signal_handler, lines 166-168
StepMalloc ==
    /\ hstack # <<>>
    /\ Head(hstack).kind = "malloc"
    /\ LET h == Head(hstack)
       IN  CASE h.at = "L166" ->
                  /\ memory_malloc_samples' =
                         Add(memory_malloc_samples, h.fname, h.lineno, 1)
                  /\ Goto("L167")
                  /\ UNCHANGED <<total_memory_malloc_samples,
                                 total_memory_free_samples, last_interrupt>>
             [] h.at = "L167" ->
                  /\ malloc_total
                  /\ Return
                  /\ last_interrupt' =
                         [kind |-> "malloc", outcome |-> "attributed"]
                  /\ UNCHANGED memory_malloc_samples
    /\ UNCHANGED <<launcher, clock, disp, itimer, cpu_pending, sampling,
                   elapsed_time, cpu_samples_python, cpu_samples_c,
                   memory_free_samples, total_cpu_samples, filter, report,
                   events, calls, fillers, stop_calls, cpu_attributed,
                   cpu_handled, last_frame>>

\* one statement of free_signal_handler, lines 177-179
StepFree ==
    /\ hstack # <<>>
    /\ Head(hstack).kind = "free"
    /\ LET h == Head(hstack)
       IN  CASE h.at = "L177" ->
                  /\ memory_free_samples' =
                         Add(memory_free_samples, h.fname, h.lineno, 1)
                  /\ Goto("L178")
                  /\ UNCHANGED <<total_memory_malloc_samples,
                                 total_memory_free_samples, last_interrupt>>
             [] h.at = "L178" ->
                  /\ free_total
                  /\ Return
                  /\ last_interrupt' =
                         [kind |-> "free", outcome |-> "attributed"]
                  /\ UNCHANGED memory_free_samples
    /\ UNCHANGED <<launcher, clock, disp, itimer, cpu_pending, sampling,
                   elapsed_time, cpu_samples_python, cpu_samples_c,
                   memory_malloc_samples, total_cpu_samples, filter, report,
                   events, calls, fillers, stop_calls, cpu_attributed,
                   cpu_handled, last_frame>>

NextNested ==
    \/ Tick
    \/ TimerFire
    \/ EnterCpu
    \/ StepCpu
    \/ EnterMalloc
    \/ StepMalloc
    \/ EnterFree
    \/ StepFree

SpecNested == InitFilter /\ [][NextNested]_vars

----------------------------------------------------------------------------
(* Properties. *)

AnInterrupt == TimerFire \/ CpuInterrupt \/ MallocInterrupt \/ FreeInterrupt

\* C1: once stop() has returned the timer is disarmed and stays disarmed, and
\* no interrupt of any kind (a CPU interrupt pending at stop() included)
\* changes a sample table or a global counter or rearms the timer.
C1_FrozenAfterStop ==
    [][stop_calls >= 1 =>
          /\ ~itimer'.armed
          /\ AnInterrupt => (tables' = tables /\ counters' = counters)]_vars

\* C2: however exec(code) ends (return, exception, exit request), the
\* launcher has performed stop() by the time the process has exited.
C2_StopOnEveryTermination ==
    (pc = "exited" /\ target_outcome # "none") => stop_calls >= 1

\* C3: a second stop() leaves the profiler state as the first one left it:
\* elapsed_time, the timer, the signal dispositions, tables and counters.
C3_StopIdempotent ==
    [][(stop_calls >= 1 /\ stop_calls' > stop_calls) =>
          /\ elapsed_time' = elapsed_time
          /\ itimer' = itimer
          /\ disp' = disp
          /\ tables' = tables
          /\ counters' = counters
          /\ sampling' = sampling]_vars

\* C4: no interrupt handler ever raises, whatever the interrupted location.
C4_HandlersNeverRaise == last_interrupt.outcome # "raised"

\* the components of a path
Components(path) == SelectSeq(Split(path), LAMBDA c : c # <<>>)

\* path is root or a descendant of root, by whole path components
Contained(path, root) ==
    LET p == Components(path)
        r == Components(root)
    IN  Len(p) >= Len(r) /\ SubSeq(p, 1, Len(r)) = r

\* C5: for a file name that is not empty, not synthetic and not the
\* profiler's own file, should_trace returns true exactly when the canonical
\* absolute path is the program's root directory or a descendant of it.
C5_FilterIsContainment ==
    (/\ last_call.called
     /\ ~last_call.raised
     /\ last_call.filename # <<>>
     /\ last_call.filename[1] # "<"
     /\ last_call.filename # ProfilerFile)
        => (last_call.value <=>
                Contained(abspath(last_call.filename, last_call.cwd),
                          program_path))

\* some CPU, allocation or free sample is recorded in the tables
Recorded(t) == \E f \in DOMAIN t : \E l \in DOMAIN t[f] : t[f][l] > 0
AnySampleRecorded ==
    \/ Recorded(cpu_samples_python)
    \/ Recorded(memory_malloc_samples)
    \/ Recorded(memory_free_samples)

Printed(what) == \E i \in 1..Len(output) : output[i] = what

\* C6: after the program returned and stop() ran, the launcher writes the
\* report exactly when some sample was recorded, and the notice otherwise.
C6_ReportIffSampled ==
    (target_outcome = "return" /\ pc \in {"finish", "exited"})
        => /\ Printed("report") <=> AnySampleRecorded
           /\ Printed("notice") <=> ~AnySampleRecorded

\* C7: two should_trace calls with the same file name return the same
\* boolean, whatever happens between them.
C7_FilterDeterministic ==
    (last_call.called /\ ~last_call.raised
        /\ last_call.filename \in DOMAIN first_result)
        => last_call.value = first_result[last_call.filename]

\* a + b <= 100 for rationals with positive denominators
SumAtMost100(a, b) ==
    a.num * b.den + b.num * a.den <= 100 * a.den * b.den

\* C8: when total_cpu_samples > 0, every reported line has
\* cpuPercentPython + cpuPercentNative <= 100.
C8_LinePercentAtMost100 ==
    (report.invoked /\ total_cpu_samples > 0) =>
        \A f \in DOMAIN report.files :
            \A l \in DOMAIN report.files[f].rows :
                SumAtMost100(report.files[f].rows[l].n_cpu_percent_python,
                             report.files[f].rows[l].n_cpu_percent_c)

\* C9: the report has the memory columns exactly when at least one
\* allocation or free event was recorded.
C9_MemoryColumnsIffAnyEvent ==
    report.invoked =>
        (report.did_sample_memory <=>
            total_memory_malloc_samples + total_memory_free_samples >= 1)

\* C10: the per-file CPU figure of the header counts native time clamped at
\* zero, so it is at least the file's interpreted sample count.
C10_HeaderClampsNative ==
    report.invoked =>
        \A f \in DOMAIN report.files :
            /\ report.files[f].this_cpu_samples
                   >= Den * SumRow(cpu_samples_python, f)
            /\ report.files[f].percent_cpu_time.num >= 0

\* C11: a report written while total_cpu_samples is 0 gives 0 for the
\* per-file percentage and for both percentages of every line.
C11_ZeroTotalGivesZeroPercent ==
    (report.invoked /\ total_cpu_samples = 0) =>
        \A f \in DOMAIN report.files :
            /\ report.files[f].percent_cpu_time = Zero
            /\ \A l \in DOMAIN report.files[f].rows :
                   /\ report.files[f].rows[l].n_cpu_percent_python = Zero
                   /\ report.files[f].rows[l].n_cpu_percent_c = Zero

\* a report of a run that recorded memory events only, with a listed file
C11_Witness ==
    /\ report.invoked
    /\ total_cpu_samples = 0
    /\ total_memory_malloc_samples + total_memory_free_samples > 0
    /\ \E f \in DOMAIN report.files : report.files[f].rows # EmptyTable

\* C12: last_signal_interval is within [mean / 2, mean * 3 / 2] and, while
\* the timer is armed, it is the period the timer is armed with.
C12_IntervalInRangeAndArmed ==
    /\ mean_signal_interval <= 2 * last_signal_interval
    /\ 2 * last_signal_interval <= 3 * mean_signal_interval
    /\ itimer.armed => itimer.interval = last_signal_interval

\* the timer rearmed by a handler with an interval other than the mean
C12_Witness ==
    /\ last_interrupt.kind = "cpu"
    /\ last_interrupt.outcome \in {"attributed", "skipped"}
    /\ itimer.armed
    /\ last_signal_interval # mean_signal_interval

\* the number of CPU interrupts attributed to f so far
Attributed(f) == IF f \in DOMAIN cpu_attributed THEN cpu_attributed[f] ELSE 0

\* C13: for every file the interpreted counts of its lines add up to the
\* number of CPU interrupts attributed to the file.
C13_InterpretedSumIsCount ==
    \A f \in DOMAIN cpu_samples_python \cup DOMAIN cpu_attributed :
        SumRow(cpu_samples_python, f) = Attributed(f)

\* two interrupts attributed to one file, after a skipped one or not
C13_Witness == \E f \in DOMAIN cpu_attributed : cpu_attributed[f] = 2

C15_SkipResetsSampling ==
    [][/\ (cpu_handled' # cpu_handled
              /\ last_interrupt'.outcome = "skipped") =>
              /\ tables' = tables
              /\ total_cpu_samples' = total_cpu_samples
              /\ last_signal_time' = clock'
              /\ last_signal_time' >= clock
              /\ mean_signal_interval <= 2 * last_signal_interval'
              /\ 2 * last_signal_interval' <= 3 * mean_signal_interval
              /\ itimer' = [armed |-> TRUE,
                            expiry |-> clock' + last_signal_interval',
                            interval |-> last_signal_interval']
       /\ last_signal_time' >= last_signal_time]_vars

\* a skipped interrupt taken after time has passed since the last timestamp
C15_Witness ==
    /\ last_interrupt = [kind |-> "cpu", outcome |-> "skipped"]
    /\ last_signal_time > 0
    /\ last_signal_time = clock

\* C16: an attributed CPU interrupt that arrives in a frame without a file
\* name is counted on the caller's line of the caller's file.
C16_CallerFileAndLine ==
    [][(/\ cpu_handled' # cpu_handled
        /\ last_interrupt'.outcome = "attributed"
        /\ last_frame'[1].fname = EmptyName) =>
           Get(cpu_samples_python', last_frame'[2].fname,
               last_frame'[2].lineno)
             = Get(cpu_samples_python, last_frame'[2].fname,
                   last_frame'[2].lineno) + 1]_vars

\* C17: a CPU handler that returns, on either path, leaves the timer armed
\* periodically with the new last_signal_interval, counted from a clock
\* reading of the handler; between construction and stop() or the exit
\* handler the timer is always armed.
C17_HandlerRearms ==
    [][/\ (/\ cpu_handled' # cpu_handled
           /\ last_interrupt'.outcome \in {"attributed", "skipped"}) =>
              /\ itimer'.armed
              /\ itimer'.interval = last_signal_interval'
              /\ mean_signal_interval <= 2 * last_signal_interval'
              /\ 2 * last_signal_interval' <= 3 * mean_signal_interval
              /\ itimer'.expiry \in {clock + last_signal_interval',
                                     clock' + last_signal_interval'}
       /\ (atexit_registered' /\ stop_calls' = 0 /\ pc' # "exited")
              => itimer'.armed]_vars

\* an attributed interrupt returned and then the timer it armed expired
C17_Witness ==
    /\ last_interrupt = [kind |-> "cpu", outcome |-> "attributed"]
    /\ cpu_pending
    /\ stop_calls = 0
    /\ itimer.armed

\* every value read from u is the value read from t
SameValues(t, u) ==
    \A f \in DOMAIN t \cup DOMAIN u :
        \A l \in Lines \cup (IF f \in DOMAIN t THEN DOMAIN t[f] ELSE {})
                     \cup (IF f \in DOMAIN u THEN DOMAIN u[f] ELSE {}) :
            Get(u, f, l) = Get(t, f, l)

\* C18: writing the report leaves every value of the four tables and the
\* three counters as it was, and from then on the report computed from the
\* stored state is the report that was written.
C18_ReportKeepsStorage ==
    /\ [][(~report.invoked /\ report'.invoked) =>
             /\ SameValues(cpu_samples_c, cpu_samples_c')
             /\ SameValues(cpu_samples_python, cpu_samples_python')
             /\ SameValues(memory_malloc_samples, memory_malloc_samples')
             /\ SameValues(memory_free_samples, memory_free_samples')
             /\ counters' = counters]_vars
    /\ [](report.invoked => printed_profile = report)

\* a report that printed 0 for a line whose stored native value is negative
C18_Witness ==
    /\ report.invoked
    /\ \E f \in DOMAIN report.files :
           \E l \in DOMAIN report.files[f].rows :
               /\ Get(cpu_samples_c, f, l) < 0
               /\ report.files[f].rows[l].n_cpu_percent_c.num = 0

RECURSIVE SumFiles(_, _)
\* the sum of all entries of the rows fs of table t
SumFiles(t, fs) ==
    IF fs = {} THEN 0
    ELSE LET f == CHOOSE x \in fs : TRUE
         IN  SumRow(t, f) + SumFiles(t, fs \ {f})

SumTable(t) == SumFiles(t, DOMAIN t)

\* C19: whenever no handler is in the middle of its statements,
\* total_cpu_samples is the sum of all interpreted counts and all stored
\* native values, also when a CPU interrupt was handled while a CPU handler
\* was executing.
C19_TotalIsSumOfTables ==
    hstack = <<>> =>
        total_cpu_samples =
            Den * SumTable(cpu_samples_python) + SumTable(cpu_samples_c)

\* the top handler has executed a statement or returned
Stepped(kind) ==
    /\ hstack # <<>>
    /\ Head(hstack).kind = kind
    /\ hstack' # hstack
    /\ Len(hstack') <= Len(hstack)

\* a handler of this kind was entered and goes on or has returned
Entered(kind) ==
    /\ events' # events
    /\ itimer' = itimer
    /\ \/ Len(hstack') > Len(hstack) /\ Head(hstack').kind = kind
       \/ hstack' = hstack /\ last_interrupt'.kind = kind

\* C20: whenever no handler is in the middle of its statements, each memory
\* counter is the sum of its table, whatever handlers ran inside each other;
\* no statement of the allocation handler changes the free table or counter,
\* none of the free handler changes the allocation table or counter, and
\* none of either changes the CPU tables, the CPU total, the timestamp, the
\* interval or the timer.
C20_MemoryCountersAreSums ==
    /\ [](hstack = <<>> =>
             /\ total_memory_malloc_samples = SumTable(memory_malloc_samples)
             /\ total_memory_free_samples = SumTable(memory_free_samples))
    /\ [][/\ (Stepped("malloc") \/ Entered("malloc")) =>
                 UNCHANGED <<memory_free_samples, total_memory_free_samples>>
          /\ (Stepped("free") \/ Entered("free")) =>
                 UNCHANGED <<memory_malloc_samples,
                             total_memory_malloc_samples>>
          /\ (Stepped("malloc") \/ Entered("malloc")
                \/ Stepped("free") \/ Entered("free")) =>
                 UNCHANGED <<cpu_samples_python, cpu_samples_c,
                             total_cpu_samples, sampling, itimer>>]_vars

\* an allocation event counted by a handler that a CPU handler interrupted,
\* or that ran inside a CPU handler
C20_Witness ==
    /\ hstack = <<>>
    /\ total_memory_malloc_samples = 1
    /\ cpu_handled = 1
    /\ last_interrupt.kind = "malloc"
    /\ last_frame \in HandlerFrames

====
